---- MODULE Spec2Model ----
(***************************************************************************)
(* One invocation of a `vcd network ...` leaf command of                   *)
(* src/vcd_cli/network.py: click parses the command line, the --yes        *)
(* option prompts when it was not given, the command callback restores     *)
(* the session, issues its SDK call and reports the result or the          *)
(* failure.  The module's state is the command line, the cached session,   *)
(* the position of the invocation and everything the invocation has        *)
(* produced (remote operations, stdout, stderr, exit status).              *)
(***************************************************************************)
EXTENDS Integers, Sequences, FiniteSets

VARIABLES
    cmd,          \* the leaf command dispatched to
    argv,         \* the command line: [opts, port_group, ip_range]
    session,      \* the cached session: [authenticated, vdc_href]
    pc,           \* "parse", "prompt", "invoke", "done"
    params,       \* keyword arguments click hands to the callback
    promptShown,  \* the confirmation prompt was displayed
    answer,       \* the reply to the prompt: "none", "y", "n", "eof"
    remoteCalls,  \* remote operations issued, in order
    responses,    \* what the remote answered to each, in order
    out,          \* objects handed to stdout, in order
    err,          \* lines written to the error stream
    exit_status,  \* process exit status (meaningful when pc = "done")
    failure,      \* how the invocation failed, NoFailure when it has not
    escaped       \* an exception left the command callback uncaught

vars == <<cmd, argv, session, pc, params, promptShown, answer, remoteCalls,
          responses, out, err, exit_status, failure, escaped>>

----------------------------------------------------------------------------
(* Bounds of the model. *)

MaxOptional == 1
MaxMissing == 1
MaxRepeat == 2
MaxNets == 2
MaxTasks == 2

----------------------------------------------------------------------------
(* The command tree and the declared parameters. *)

None == "None"
NoFailure == "NoFailure"

Commands ==
    {"direct create", "isolated create", "external create",
     "external list", "direct list", "isolated list",
     "direct delete", "isolated delete", "external delete",
     "external update"}

VdcScoped ==
    {"direct create", "isolated create", "direct list", "isolated list",
     "direct delete", "isolated delete"}

ExternalCommands ==
    {"external create", "external list", "external delete", "external update"}

DeleteCommands == {"direct delete", "isolated delete", "external delete"}

\* Options and positional arguments each command declares (single-valued).
Options(c) ==
    CASE c = "direct create" ->
           {"<name>", "--parent", "--description", "--shared", "--not-shared"}
      [] c = "isolated create" ->
           {"<name>", "--gateway", "--netmask", "--description", "--dns1",
            "--dns2", "--dns-suffix", "--ip-range-start", "--ip-range-end",
            "--dhcp-enabled", "--dhcp-disabled", "--default-lease-time",
            "--max-lease-time", "--dhcp-ip-range-start",
            "--dhcp-ip-range-end", "--shared", "--not-shared"}
      [] c = "external create" ->
           {"<name>", "<vc-name>", "--gateway", "--netmask", "--description",
            "--dns1", "--dns2", "--dns-suffix"}
      [] c \in {"direct delete", "isolated delete"} ->
           {"<name>", "--force", "--yes"}
      [] c = "external delete" -> {"<name>"}
      [] c = "external update" -> {"<name>", "--name", "--description"}
      [] OTHER -> {}

\* Parameters click refuses to be without.
RequiredOptions(c) ==
    CASE c = "direct create" -> {"<name>", "--parent"}
      [] c = "isolated create" -> {"<name>", "--gateway", "--netmask"}
      [] c = "external create" -> {"<name>", "<vc-name>", "--gateway", "--netmask"}
      [] c \in DeleteCommands -> {"<name>"}
      [] c = "external update" -> {"<name>"}
      [] OTHER -> {}

\* Faulty variant: --ip-range loses required=True.
RequiredRepeatableNoIpRange(c) ==
    IF c = "external create" THEN {"port_group"} ELSE {}

\* Options declared multiple=True, required=True.
RequiredRepeatable(c) ==
    IF c = "external create" THEN {"port_group", "ip_range"} ELSE {}

\* Faulty variant: no command declares a prompting --yes.
HasPromptNever(c) == FALSE

\* The command declares --yes with prompt=... and callback=abort_if_false.
HasPrompt(c) == c \in {"direct delete", "isolated delete"}

\* Faulty variant: the vdc-scoped callbacks forget vdc_required=True.
VdcRequiredNever(c) == FALSE

\* Faulty variant: every callback passes vdc_required=True.
VdcRequiredAlways(c) == TRUE

\* The vdc_required argument the callback passes to restore_session.
VdcRequired(c) == c \in VdcScoped

\* Two flags that set the same parameter.
Exclusive(S) ==
    /\ ~({"--shared", "--not-shared"} \subseteq S)
    /\ ~({"--dhcp-enabled", "--dhcp-disabled"} \subseteq S)

\* The text given on the command line with an option.
ArgValue(o) ==
    CASE o = "<name>" -> "net1"
      [] o = "<vc-name>" -> "vc1"
      [] o = "--parent" -> "ext-net1"
      [] o = "--description" -> "some text"
      [] o = "--gateway" -> "192.168.1.1"
      [] o = "--netmask" -> "255.255.255.0"
      [] o = "--dns1" -> "8.8.8.8"
      [] o = "--dns2" -> "8.8.8.9"
      [] o = "--dns-suffix" -> "example.com"
      [] o = "--ip-range-start" -> "192.168.1.100"
      [] o = "--ip-range-end" -> "192.168.1.199"
      [] o = "--default-lease-time" -> "3600"
      [] o = "--max-lease-time" -> "7200"
      [] o = "--dhcp-ip-range-start" -> "192.168.1.200"
      [] o = "--dhcp-ip-range-end" -> "192.168.1.249"
      [] o = "--name" -> "net2"
      [] OTHER -> None

PortGroups == {"pg1", "pg2"}
IpRanges == {"192.168.1.2-192.168.1.49", "192.168.1.100-192.168.1.149"}

SeqsUpTo(S, n) == UNION {[1..k -> S] : k \in 0..n}

OptionSets(c) ==
    {S \in SUBSET Options(c) :
        /\ Cardinality(RequiredOptions(c) \ S) <= MaxMissing
        /\ Cardinality(S \ RequiredOptions(c)) <= MaxOptional
        /\ Exclusive(S)}

CommandLines(c) ==
    IF c = "external create"
    THEN [opts : OptionSets(c),
          port_group : SeqsUpTo(PortGroups, MaxRepeat),
          ip_range : SeqsUpTo(IpRanges, MaxRepeat)]
    ELSE [opts : OptionSets(c), port_group : {<<>>}, ip_range : {<<>>}]

Sessions ==
    [authenticated : BOOLEAN, vdc_href : {None, "https://vcd/api/vdc/1"}]

----------------------------------------------------------------------------
(* click: from the command line to the callback's keyword arguments. *)

Opt(o, default) == IF o \in argv.opts THEN ArgValue(o) ELSE default

Flag(on, off, default) ==
    IF on \in argv.opts THEN TRUE
    ELSE IF off \in argv.opts THEN FALSE
    ELSE default

ParseArgs(c) ==
    CASE c = "direct create" ->
           [name |-> Opt("<name>", None),
            parent_network_name |-> Opt("--parent", None),
            description |-> Opt("--description", ""),
            is_shared |-> Flag("--shared", "--not-shared", FALSE)]
      [] c = "isolated create" ->
           [name |-> Opt("<name>", None),
            gateway_ip |-> Opt("--gateway", None),
            netmask |-> Opt("--netmask", None),
            description |-> Opt("--description", ""),
            primary_dns_ip |-> Opt("--dns1", None),
            secondary_dns_ip |-> Opt("--dns2", None),
            dns_suffix |-> Opt("--dns-suffix", None),
            ip_range_start |-> Opt("--ip-range-start", None),
            ip_range_end |-> Opt("--ip-range-end", None),
            is_dhcp_enabled |-> Flag("--dhcp-enabled", "--dhcp-disabled", FALSE),
            default_lease_time |-> Opt("--default-lease-time", None),
            max_lease_time |-> Opt("--max-lease-time", None),
            dhcp_ip_range_start |-> Opt("--dhcp-ip-range-start", None),
            dhcp_ip_range_end |-> Opt("--dhcp-ip-range-end", None),
            is_shared |-> Flag("--shared", "--not-shared", FALSE)]
      [] c = "external create" ->
           [name |-> Opt("<name>", None),
            vc_name |-> Opt("<vc-name>", None),
            port_group |-> argv.port_group,
            gateway_ip |-> Opt("--gateway", None),
            netmask |-> Opt("--netmask", None),
            ip_range |-> argv.ip_range,
            description |-> Opt("--description", ""),
            primary_dns_ip |-> Opt("--dns1", None),
            secondary_dns_ip |-> Opt("--dns2", None),
            dns_suffix |-> Opt("--dns-suffix", None)]
      [] c \in {"direct delete", "isolated delete"} ->
           [name |-> Opt("<name>", None),
            force |-> Flag("--force", "--no-such-flag", FALSE)]
      [] c = "external delete" -> [name |-> Opt("<name>", None)]
      [] c = "external update" ->
           [name |-> Opt("<name>", None),
            new_name |-> Opt("--name", None),
            new_description |-> Opt("--description", None)]
      [] OTHER -> [ctx |-> "ctx"]

\* A required parameter was not supplied: click raises MissingParameter.
MissingParameter(c) ==
    \/ RequiredOptions(c) \ argv.opts # {}
    \/ \E r \in RequiredRepeatable(c) : argv[r] = <<>>

UsageExitStatus == 2
ClickAbortExitStatus == 1
AbortExitStatus == 0
StderrExitStatus == 1

\* click's parse refuses the command line; the callback is never invoked.
click_usage_error ==
    /\ pc = "parse"
    /\ MissingParameter(cmd)
    /\ pc' = "done"
    /\ failure' = "ValidationError"
    /\ err' = Append(err, "Error: Missing parameter")
    /\ exit_status' = UsageExitStatus
    /\ UNCHANGED <<cmd, argv, session, params, promptShown, answer,
                   remoteCalls, responses, out, escaped>>

\* click's parse accepts the command line; --yes prompts when not given.
click_parse ==
    /\ pc = "parse"
    /\ ~MissingParameter(cmd)
    /\ params' = ParseArgs(cmd)
    /\ pc' = IF HasPrompt(cmd) /\ "--yes" \notin argv.opts
             THEN "prompt" ELSE "invoke"
    /\ UNCHANGED <<cmd, argv, session, promptShown, answer, remoteCalls,
                   responses, out, err, exit_status, failure, escaped>>

\* abort_if_false: stop the invocation when the flag's value is false.
abort_if_false(value) == ~value

\* The prompt of --yes and its callback.  The user replies y or n and the
\* callback gets the reply; or standard input ends without a reply, and click
\* aborts by itself: 'Aborted!' on the error stream, abort_if_false and the
\* command callback never called.
confirm ==
    /\ pc = "prompt"
    /\ promptShown' = TRUE
    /\ \E a \in {"y", "n", "eof"} :
         /\ answer' = a
         /\ IF a = "eof"
            THEN /\ pc' = "done"
                 /\ failure' = "Abort"
                 /\ err' = Append(err, "Aborted!")
                 /\ exit_status' = ClickAbortExitStatus
            ELSE IF abort_if_false(a = "y")
            THEN /\ pc' = "done"
                 /\ failure' = "Abort"
                 /\ exit_status' = AbortExitStatus
                 /\ UNCHANGED err
            ELSE /\ pc' = "invoke"
                 /\ UNCHANGED <<failure, exit_status, err>>
    /\ UNCHANGED <<cmd, argv, session, params, remoteCalls, responses, out,
                   escaped>>

----------------------------------------------------------------------------
(* The collaborators of a callback: session, remote, output sink. *)

\* restore_session(ctx, vdc_required): NoFailure, or the failure it raises.
restore_session(s, vdc_required) ==
    IF ~s.authenticated THEN "AuthFailure"
    ELSE IF vdc_required /\ s.vdc_href = None THEN "NoVdcSelected"
    ELSE NoFailure

\* Platform(client): the system-level handle.
Platform == [scope |-> "platform", href |-> None]

\* VDC(client, href=in_use_vdc_href): the handle of the selected vdc.
VDC(href) == [scope |-> "vdc", href |-> href]

\* What a remote create or update answers: it raises, or returns an entity
\* with its queued tasks.
TaskListResponses ==
    {[raised |-> TRUE, tasks |-> <<>>]}
    \cup {[raised |-> FALSE, tasks |-> [i \in 1..n |-> i]] : n \in 0..MaxTasks}

\* What a remote delete answers: it raises, or returns the delete task.
DeleteResponses ==
    {[raised |-> TRUE, task |-> 0], [raised |-> FALSE, task |-> 1]}

NetworkRecords == [name : {"netA", "netB"}, type : {"network"}]

\* What a remote enumeration answers: it raises, or returns the networks.
ListResponses ==
    {[raised |-> TRUE, nets |-> <<>>]}
    \cup {[raised |-> FALSE, nets |-> n] : n \in SeqsUpTo(NetworkRecords, MaxNets)}

\* Faulty variant: the handler does not catch a failure of the output sink.
ExceptionKindsNoOutput ==
    {"AuthFailure", "NoVdcSelected", "RemoteRejected", "ResultError"}

\* The failures `except Exception` catches: what is raised in the try body
\* and derives from Exception.
ExceptionKinds ==
    {"AuthFailure", "NoVdcSelected", "RemoteRejected", "ResultError",
     "OutputError"}

\* What can be raised in the try body and does not derive from Exception
\* (BaseException only): `except Exception` lets it through.
BaseExceptionKinds == {"KeyboardInterrupt", "SystemExit"}

\* What can arrive at any statement of the try body: Ctrl-C.
Interrupts == {"KeyboardInterrupt"}

\* What can be raised before the SDK call is made, other than by
\* restore_session refusing the session.
EarlyRaises == BaseExceptionKinds

\* What a blocking SDK call can raise.
CallRaises == {"RemoteRejected"} \cup BaseExceptionKinds

\* What reading the first task of a result without tasks can raise.
ExtractRaises == {"ResultError"} \cup Interrupts

\* What a stdout call can raise.
StdoutRaises == {"OutputError"} \cup BaseExceptionKinds

\* The width of a process exit status: the operating system keeps the low
\* eight bits of the code a process exits with.
ExitStatusModulus == 256

\* The integer codes a SystemExit can carry: every status a process can exit
\* with, and one code on each side that does not fit the status.
SystemExitCodes == -1..ExitStatusModulus

\* What a SystemExit can carry that is neither None nor an integer: the
\* interpreter prints it on the error stream.
SystemExitMessages == {"boom"}

\* The status the interpreter exits with after printing what a SystemExit
\* carried.
SystemExitMessageStatus == 1

\* A SystemExit that nothing catches ends the process: carrying nothing
\* (None), the status is 0; carrying an integer, the status is that integer
\* in the width of an exit status; carrying anything else, that is printed
\* on the error stream and the status is 1.
SystemExit ==
    \/ /\ exit_status' = 0
       /\ err' = err
    \/ \E code \in SystemExitCodes :
          /\ exit_status' = code % ExitStatusModulus
          /\ err' = err
    \/ \E msg \in SystemExitMessages :
          /\ exit_status' = SystemExitMessageStatus
          /\ err' = Append(err, msg)

\* The end of a callback: the try body ran through (f = NoFailure), or raised
\* f and `except Exception as e: stderr(e, ctx)` handled it, or raised an f
\* the except clause does not match.  Such an f leaves the callback and stderr
\* is not called: click turns a KeyboardInterrupt into 'Aborted!' on the error
\* stream and its abort status, and a SystemExit ends the process with the
\* status, and the message if any, that it carries.
Finish(calls, resps, outs, f) ==
    /\ pc' = "done"
    /\ remoteCalls' = calls
    /\ responses' = resps
    /\ out' = outs
    /\ failure' = f
    /\ IF f = NoFailure
       THEN /\ exit_status' = 0
            /\ UNCHANGED <<err, escaped>>
       ELSE IF f \in ExceptionKinds
       THEN /\ err' = Append(err, f)
            /\ exit_status' = StderrExitStatus
            /\ UNCHANGED escaped
       ELSE IF f = "KeyboardInterrupt"
       THEN /\ escaped' = TRUE
            /\ err' = Append(err, "Aborted!")
            /\ exit_status' = ClickAbortExitStatus
       ELSE IF f = "SystemExit"
       THEN /\ escaped' = TRUE
            /\ SystemExit
       ELSE /\ escaped' = TRUE
            /\ err' = err \o <<"Traceback (most recent call last):", f>>
            /\ exit_status' = StderrExitStatus
    /\ UNCHANGED <<cmd, argv, session, params, promptShown, answer>>

\* The stdout calls that end a try body: the first k succeed, and the next
\* one, if there is one, raises; after the last one the body can still be
\* interrupted.
Stdout(calls, resps, items, k) ==
    IF k = Len(items)
    THEN \E f \in {NoFailure} \cup Interrupts : Finish(calls, resps, items, f)
    ELSE \E f \in StdoutRaises : Finish(calls, resps, SubSeq(items, 1, k), f)

\* Faulty variant: the last queued task is reported.
FirstTaskLast(tasks) == tasks[Len(tasks)]

\* result.Tasks.Task[0]
FirstTask(tasks) == tasks[1]

\* Faulty variant: the listing is built back to front.
SummariesReversed(nets) ==
    [i \in 1..Len(nets) |-> [name |-> nets[Len(nets) + 1 - i].name]]

\* result = []; for net in nets: result.append({'name': net.get('name')})
Summaries(nets) == [i \in 1..Len(nets) |-> [name |-> nets[i].name]]

----------------------------------------------------------------------------
(* The keyword arguments of each SDK call. *)

DirectCreateRequest(p) ==
    [network_name |-> p.name,
     parent_network_name |-> p.parent_network_name,
     description |-> p.description,
     is_shared |-> p.is_shared]

IsolatedCreateRequest(p) ==
    [network_name |-> p.name,
     gateway_ip |-> p.gateway_ip,
     netmask |-> p.netmask,
     description |-> p.description,
     primary_dns_ip |-> p.primary_dns_ip,
     secondary_dns_ip |-> p.secondary_dns_ip,
     dns_suffix |-> p.dns_suffix,
     ip_range_start |-> p.ip_range_start,
     ip_range_end |-> p.ip_range_end,
     is_dhcp_enabled |-> p.is_dhcp_enabled,
     default_lease_time |-> p.default_lease_time,
     max_lease_time |-> p.max_lease_time,
     dhcp_ip_range_start |-> p.dhcp_ip_range_start,
     dhcp_ip_range_end |-> p.dhcp_ip_range_end,
     is_shared |-> p.is_shared]

\* Faulty variant: gateway and netmask change places.
ExternalCreateRequestSwapped(p) ==
    [name |-> p.name,
     vim_server_name |-> p.vc_name,
     port_group_names |-> p.port_group,
     gateway_ip |-> p.netmask,
     netmask |-> p.gateway_ip,
     ip_ranges |-> p.ip_range,
     description |-> p.description,
     primary_dns_ip |-> p.primary_dns_ip,
     secondary_dns_ip |-> p.secondary_dns_ip,
     dns_suffix |-> p.dns_suffix]

ExternalCreateRequest(p) ==
    [name |-> p.name,
     vim_server_name |-> p.vc_name,
     port_group_names |-> p.port_group,
     gateway_ip |-> p.gateway_ip,
     netmask |-> p.netmask,
     ip_ranges |-> p.ip_range,
     description |-> p.description,
     primary_dns_ip |-> p.primary_dns_ip,
     secondary_dns_ip |-> p.secondary_dns_ip,
     dns_suffix |-> p.dns_suffix]

DeleteOrgVdcNetworkRequest(p) == [name |-> p.name, force |-> p.force]

DeleteExternalRequest(p) == [name |-> p.name]

\* Faulty variant: a name is always sent as the new name.
UpdateExternalRequestRename(p) ==
    [name |-> p.name,
     new_name |-> IF p.new_name = None THEN "" ELSE p.new_name,
     new_description |-> p.new_description]

UpdateExternalRequest(p) ==
    [name |-> p.name,
     new_name |-> p.new_name,
     new_description |-> p.new_description]

Call(op, on, req) == [op |-> op, on |-> on, req |-> req]

----------------------------------------------------------------------------
(* The command callbacks. *)

create_direct_network ==
    /\ pc = "invoke"
    /\ cmd = "direct create"
    /\ LET s == restore_session(session, VdcRequired(cmd))
           call == Call("create_directly_connected_vdc_network",
                        VDC(session.vdc_href), DirectCreateRequest(params))
       IN  \/ \E b \in EarlyRaises : Finish(<<>>, <<>>, <<>>, b)
           \/ IF s # NoFailure THEN Finish(<<>>, <<>>, <<>>, s)
              ELSE \E r \in TaskListResponses :
                  IF r.raised
                  THEN \E f \in CallRaises : Finish(<<call>>, <<r>>, <<>>, f)
                  ELSE IF r.tasks = <<>>
                  THEN \E f \in ExtractRaises : Finish(<<call>>, <<r>>, <<>>, f)
                  ELSE \E k \in 0..1 :
                         Stdout(<<call>>, <<r>>,
                                <<[task |-> FirstTask(r.tasks)]>>, k)

create_isolated_network ==
    /\ pc = "invoke"
    /\ cmd = "isolated create"
    /\ LET s == restore_session(session, VdcRequired(cmd))
           call == Call("create_isolated_vdc_network",
                        VDC(session.vdc_href), IsolatedCreateRequest(params))
       IN  \/ \E b \in EarlyRaises : Finish(<<>>, <<>>, <<>>, b)
           \/ IF s # NoFailure THEN Finish(<<>>, <<>>, <<>>, s)
              ELSE \E r \in TaskListResponses :
                  IF r.raised
                  THEN \E f \in CallRaises : Finish(<<call>>, <<r>>, <<>>, f)
                  ELSE IF r.tasks = <<>>
                  THEN \E f \in ExtractRaises : Finish(<<call>>, <<r>>, <<>>, f)
                  ELSE \E k \in 0..1 :
                         Stdout(<<call>>, <<r>>,
                                <<[task |-> FirstTask(r.tasks)]>>, k)

create_external_network ==
    /\ pc = "invoke"
    /\ cmd = "external create"
    /\ LET s == restore_session(session, VdcRequired(cmd))
           call == Call("create_external_network", Platform,
                        ExternalCreateRequest(params))
       IN  \/ \E b \in EarlyRaises : Finish(<<>>, <<>>, <<>>, b)
           \/ IF s # NoFailure THEN Finish(<<>>, <<>>, <<>>, s)
              ELSE \E r \in TaskListResponses :
                  IF r.raised
                  THEN \E f \in CallRaises : Finish(<<call>>, <<r>>, <<>>, f)
                  ELSE IF r.tasks = <<>>
                  THEN \E f \in ExtractRaises : Finish(<<call>>, <<r>>, <<>>, f)
                  ELSE \E k \in 0..2 :
                         Stdout(<<call>>, <<r>>,
                                <<[task |-> FirstTask(r.tasks)],
                                  [text |-> "External network created successfully."]>>,
                                k)

list_external_networks ==
    /\ pc = "invoke"
    /\ cmd = "external list"
    /\ LET s == restore_session(session, VdcRequired(cmd))
           call == Call("list_external_networks", Platform, <<>>)
       IN  \/ \E b \in EarlyRaises : Finish(<<>>, <<>>, <<>>, b)
           \/ IF s # NoFailure THEN Finish(<<>>, <<>>, <<>>, s)
              ELSE \E r \in ListResponses :
                  IF r.raised
                  THEN \E f \in CallRaises : Finish(<<call>>, <<r>>, <<>>, f)
                  ELSE \E k \in 0..1 :
                         Stdout(<<call>>, <<r>>,
                                <<[list |-> Summaries(r.nets)]>>, k)

list_direct_networks ==
    /\ pc = "invoke"
    /\ cmd = "direct list"
    /\ LET s == restore_session(session, VdcRequired(cmd))
           call == Call("list_orgvdc_direct_networks",
                        VDC(session.vdc_href), <<>>)
       IN  \/ \E b \in EarlyRaises : Finish(<<>>, <<>>, <<>>, b)
           \/ IF s # NoFailure THEN Finish(<<>>, <<>>, <<>>, s)
              ELSE \E r \in ListResponses :
                  IF r.raised
                  THEN \E f \in CallRaises : Finish(<<call>>, <<r>>, <<>>, f)
                  ELSE \E k \in 0..1 :
                         Stdout(<<call>>, <<r>>,
                                <<[list |-> Summaries(r.nets)]>>, k)

list_isolated_networks ==
    /\ pc = "invoke"
    /\ cmd = "isolated list"
    /\ LET s == restore_session(session, VdcRequired(cmd))
           call == Call("list_orgvdc_isolated_networks",
                        VDC(session.vdc_href), <<>>)
       IN  \/ \E b \in EarlyRaises : Finish(<<>>, <<>>, <<>>, b)
           \/ IF s # NoFailure THEN Finish(<<>>, <<>>, <<>>, s)
              ELSE \E r \in ListResponses :
                  IF r.raised
                  THEN \E f \in CallRaises : Finish(<<call>>, <<r>>, <<>>, f)
                  ELSE \E k \in 0..1 :
                         Stdout(<<call>>, <<r>>,
                                <<[list |-> Summaries(r.nets)]>>, k)

delete_direct_networks ==
    /\ pc = "invoke"
    /\ cmd = "direct delete"
    /\ LET s == restore_session(session, VdcRequired(cmd))
           call == Call("delete_direct_orgvdc_network",
                        VDC(session.vdc_href),
                        DeleteOrgVdcNetworkRequest(params))
       IN  \/ \E b \in EarlyRaises : Finish(<<>>, <<>>, <<>>, b)
           \/ IF s # NoFailure THEN Finish(<<>>, <<>>, <<>>, s)
              ELSE \E r \in DeleteResponses :
                  IF r.raised
                  THEN \E f \in CallRaises : Finish(<<call>>, <<r>>, <<>>, f)
                  ELSE \E k \in 0..1 :
                         Stdout(<<call>>, <<r>>,
                                <<[task |-> r.task]>>, k)

delete_isolated_networks ==
    /\ pc = "invoke"
    /\ cmd = "isolated delete"
    /\ LET s == restore_session(session, VdcRequired(cmd))
           call == Call("delete_isolated_orgvdc_network",
                        VDC(session.vdc_href),
                        DeleteOrgVdcNetworkRequest(params))
       IN  \/ \E b \in EarlyRaises : Finish(<<>>, <<>>, <<>>, b)
           \/ IF s # NoFailure THEN Finish(<<>>, <<>>, <<>>, s)
              ELSE \E r \in DeleteResponses :
                  IF r.raised
                  THEN \E f \in CallRaises : Finish(<<call>>, <<r>>, <<>>, f)
                  ELSE \E k \in 0..1 :
                         Stdout(<<call>>, <<r>>,
                                <<[task |-> r.task]>>, k)

delete_external_network ==
    /\ pc = "invoke"
    /\ cmd = "external delete"
    /\ LET s == restore_session(session, VdcRequired(cmd))
           call == Call("delete_external_network", Platform,
                        DeleteExternalRequest(params))
       IN  \/ \E b \in EarlyRaises : Finish(<<>>, <<>>, <<>>, b)
           \/ IF s # NoFailure THEN Finish(<<>>, <<>>, <<>>, s)
              ELSE \E r \in DeleteResponses :
                  IF r.raised
                  THEN \E f \in CallRaises : Finish(<<call>>, <<r>>, <<>>, f)
                  ELSE \E k \in 0..2 :
                         Stdout(<<call>>, <<r>>,
                                <<[task |-> r.task],
                                  [text |-> "External network deleted successfully."]>>,
                                k)

\* Faulty variant: a rejected update is sent a second time.
update_external_network_retry ==
    /\ pc = "invoke"
    /\ cmd = "external update"
    /\ LET s == restore_session(session, VdcRequired(cmd))
           call == Call("update_external_network", Platform,
                        UpdateExternalRequest(params))
       IN  \/ \E b \in EarlyRaises : Finish(<<>>, <<>>, <<>>, b)
           \/ IF s # NoFailure THEN Finish(<<>>, <<>>, <<>>, s)
              ELSE \E r \in TaskListResponses :
                  IF r.raised
                  THEN Finish(<<call, call>>, <<r, r>>, <<>>, "RemoteRejected")
                  ELSE IF r.tasks = <<>>
                  THEN \E f \in ExtractRaises : Finish(<<call>>, <<r>>, <<>>, f)
                  ELSE \E k \in 0..2 :
                         Stdout(<<call>>, <<r>>,
                                <<[task |-> FirstTask(r.tasks)],
                                  [text |-> "External network updated successfully."]>>,
                                k)

update_external_network ==
    /\ pc = "invoke"
    /\ cmd = "external update"
    /\ LET s == restore_session(session, VdcRequired(cmd))
           call == Call("update_external_network", Platform,
                        UpdateExternalRequest(params))
       IN  \/ \E b \in EarlyRaises : Finish(<<>>, <<>>, <<>>, b)
           \/ IF s # NoFailure THEN Finish(<<>>, <<>>, <<>>, s)
              ELSE \E r \in TaskListResponses :
                  IF r.raised
                  THEN \E f \in CallRaises : Finish(<<call>>, <<r>>, <<>>, f)
                  ELSE IF r.tasks = <<>>
                  THEN \E f \in ExtractRaises : Finish(<<call>>, <<r>>, <<>>, f)
                  ELSE \E k \in 0..2 :
                         Stdout(<<call>>, <<r>>,
                                <<[task |-> FirstTask(r.tasks)],
                                  [text |-> "External network updated successfully."]>>,
                                k)

----------------------------------------------------------------------------
(* The invocation. *)

Init ==
    /\ cmd \in Commands
    /\ argv \in CommandLines(cmd)
    /\ session \in Sessions
    /\ pc = "parse"
    /\ params = <<>>
    /\ promptShown = FALSE
    /\ answer = "none"
    /\ remoteCalls = <<>>
    /\ responses = <<>>
    /\ out = <<>>
    /\ err = <<>>
    /\ exit_status = 0
    /\ failure = NoFailure
    /\ escaped = FALSE

Next ==
    \/ click_usage_error
    \/ click_parse
    \/ confirm
    \/ create_direct_network
    \/ create_isolated_network
    \/ create_external_network
    \/ list_external_networks
    \/ list_direct_networks
    \/ list_isolated_networks
    \/ delete_direct_networks
    \/ delete_isolated_networks
    \/ delete_external_network
    \/ update_external_network

Spec == Init /\ [][Next]_vars

----------------------------------------------------------------------------
(* Properties. *)

Done == pc = "done"

\* click accepted the command line, so the invocation gets past parsing.
Accepted == ~MissingParameter(cmd)

NoVdc == session.vdc_href = None

ListCommands == {"external list", "direct list", "isolated list"}

CreateCommands == {"direct create", "isolated create", "external create"}

\* The one SDK method each command is for.
SdkOp(c) ==
    CASE c = "direct create" -> "create_directly_connected_vdc_network"
      [] c = "isolated create" -> "create_isolated_vdc_network"
      [] c = "external create" -> "create_external_network"
      [] c = "external list" -> "list_external_networks"
      [] c = "direct list" -> "list_orgvdc_direct_networks"
      [] c = "isolated list" -> "list_orgvdc_isolated_networks"
      [] c = "direct delete" -> "delete_direct_orgvdc_network"
      [] c = "isolated delete" -> "delete_isolated_orgvdc_network"
      [] c = "external delete" -> "delete_external_network"
      [] c = "external update" -> "update_external_network"

\* The callback was cut short by Ctrl-C or by an exit request rather than by
\* a failure of the session, the remote or the output.
Interrupted == failure \in {"KeyboardInterrupt", "SystemExit"}

\* C1 as stated: a vdc-scoped command run with an authenticated session that
\* has no vdc selected (a command line click accepts, a run that is not
\* interrupted) ends with NoVdcSelected, and issues no remote operation.
C1_AlwaysNoVdcSelected ==
    (cmd \in VdcScoped /\ NoVdc /\ session.authenticated /\ Accepted)
        => /\ remoteCalls = <<>>
           /\ (Done /\ ~Interrupted) => failure = "NoVdcSelected"

\* C1 amended: a vdc-scoped command run with no vdc selected never issues a
\* remote operation; with an authenticated session, an accepted command line
\* and no interruption it ends with NoVdcSelected, except that a delete whose
\* confirmation prompt is declined or left without a reply is aborted before
\* the session is looked at.
C1_NoVdcSelected ==
    (cmd \in VdcScoped /\ NoVdc)
        => /\ remoteCalls = <<>>
           /\ (Done /\ session.authenticated /\ Accepted /\ ~Interrupted)
                 => failure = (IF answer \in {"n", "eof"}
                               THEN "Abort" ELSE "NoVdcSelected")

C1_Witness ==
    /\ Done
    /\ cmd = "direct delete"
    /\ NoVdc
    /\ session.authenticated
    /\ answer = "y"
    /\ failure = "NoVdcSelected"
    /\ Len(err) = 1

\* C2: a delete command issues its remote delete only with an override flag
\* on the command line or after the user confirmed at the prompt.
C2_ConfirmationGate ==
    (cmd \in DeleteCommands /\ remoteCalls # <<>>)
        => \/ "--yes" \in argv.opts
           \/ "--force" \in argv.opts
           \/ (promptShown /\ answer = "y")

\* C3: a delete command run without --force and --yes shows the prompt before
\* anything else happens; a negative reply ends it with no remote call and
\* exit status 0; an affirmative reply, with a session that restores and no
\* interruption, ends it with exactly one remote delete call.
C3_PromptedDelete ==
    (cmd \in DeleteCommands /\ Accepted
        /\ "--yes" \notin argv.opts /\ "--force" \notin argv.opts)
        => /\ pc \in {"invoke", "done"} => promptShown
           /\ (Done /\ answer = "n") => (remoteCalls = <<>> /\ exit_status = 0)
           /\ (Done /\ answer = "y" /\ ~Interrupted
                 /\ restore_session(session, cmd \in VdcScoped) = NoFailure)
                 => /\ Len(remoteCalls) = 1
                    /\ remoteCalls[1].op = SdkOp(cmd)

\* The part of C3 the code keeps: what C3 says of the two commands that
\* declare the prompting --yes.
C3_PromptedVdcDelete ==
    cmd \in {"direct delete", "isolated delete"} => C3_PromptedDelete

\* C4: external create with no --port-group or no --ip-range never reaches its
\* callback: it ends with a validation error, a non-zero status and no remote
\* operation.
C4_RepeatableRequired ==
    (cmd = "external create" /\ (argv.port_group = <<>> \/ argv.ip_range = <<>>))
        => /\ pc \in {"parse", "done"}
           /\ remoteCalls = <<>>
           /\ Done => (failure = "ValidationError" /\ exit_status # 0
                       /\ err # <<>>)

C4_Witness ==
    /\ Done
    /\ cmd = "external create"
    /\ RequiredOptions(cmd) \subseteq argv.opts
    /\ Len(argv.port_group) = 2
    /\ argv.ip_range = <<>>
    /\ session.authenticated
    /\ failure = "ValidationError"

\* The output failed or the callback was cut short.
SinkFailed == failure = "OutputError" \/ Interrupted

\* The value a single-valued option has on the command line.
Given(o, default) == IF o \in argv.opts THEN ArgValue(o) ELSE default

\* C5: a create command with an accepted command line and a session that
\* restores, when not interrupted, issues exactly one remote create, whose fields are the values of
\* the command line (declared defaults for what was not given, repeated
\* options as sequences in the order given).
C5_CreateForwardsArguments ==
    (Done /\ cmd \in CreateCommands /\ Accepted /\ ~Interrupted
        /\ restore_session(session, cmd \in VdcScoped) = NoFailure)
        => /\ Len(remoteCalls) = 1
           /\ remoteCalls[1].op = SdkOp(cmd)
           /\ LET q == remoteCalls[1].req IN
              CASE cmd = "direct create" ->
                     /\ q.network_name = Given("<name>", None)
                     /\ q.parent_network_name = Given("--parent", None)
                     /\ q.description = Given("--description", "")
                     /\ q.is_shared = ("--shared" \in argv.opts)
                [] cmd = "isolated create" ->
                     /\ q.network_name = Given("<name>", None)
                     /\ q.gateway_ip = Given("--gateway", None)
                     /\ q.netmask = Given("--netmask", None)
                     /\ q.description = Given("--description", "")
                     /\ q.primary_dns_ip = Given("--dns1", None)
                     /\ q.secondary_dns_ip = Given("--dns2", None)
                     /\ q.dns_suffix = Given("--dns-suffix", None)
                     /\ q.ip_range_start = Given("--ip-range-start", None)
                     /\ q.ip_range_end = Given("--ip-range-end", None)
                     /\ q.is_dhcp_enabled = ("--dhcp-enabled" \in argv.opts)
                     /\ q.default_lease_time = Given("--default-lease-time", None)
                     /\ q.max_lease_time = Given("--max-lease-time", None)
                     /\ q.dhcp_ip_range_start = Given("--dhcp-ip-range-start", None)
                     /\ q.dhcp_ip_range_end = Given("--dhcp-ip-range-end", None)
                     /\ q.is_shared = ("--shared" \in argv.opts)
                [] cmd = "external create" ->
                     /\ q.name = Given("<name>", None)
                     /\ q.vim_server_name = Given("<vc-name>", None)
                     /\ q.port_group_names = argv.port_group
                     /\ q.gateway_ip = Given("--gateway", None)
                     /\ q.netmask = Given("--netmask", None)
                     /\ q.ip_ranges = argv.ip_range
                     /\ q.description = Given("--description", "")
                     /\ q.primary_dns_ip = Given("--dns1", None)
                     /\ q.secondary_dns_ip = Given("--dns2", None)
                     /\ q.dns_suffix = Given("--dns-suffix", None)

C5_Witness ==
    /\ Done
    /\ cmd = "external create"
    /\ argv.port_group = <<"pg2", "pg1">>
    /\ Len(argv.ip_range) = 2
    /\ argv.ip_range[1] # argv.ip_range[2]
    /\ "--dns1" \in argv.opts
    /\ Len(remoteCalls) = 1
    /\ remoteCalls[1].req.port_group_names = <<"pg2", "pg1">>
    /\ failure = NoFailure

\* C6: external update sends the network's name as it is, a new name only when
\* --name was given (None otherwise, so the name stays) and the description
\* that was given (None when none was); with neither option the update is
\* still sent, and it succeeds when the remote accepts it (a run that is
\* not interrupted).
C6_PartialUpdate ==
    (Done /\ cmd = "external update" /\ Accepted /\ session.authenticated
        /\ ~Interrupted)
        => /\ Len(remoteCalls) = 1
           /\ remoteCalls[1].op = "update_external_network"
           /\ remoteCalls[1].req.name = ArgValue("<name>")
           /\ remoteCalls[1].req.new_name = Given("--name", None)
           /\ remoteCalls[1].req.new_description = Given("--description", None)
           /\ (~responses[1].raised /\ responses[1].tasks # <<>>
                 /\ ~SinkFailed)
                 => (failure = NoFailure /\ exit_status = 0)

C6_Witness ==
    /\ Done
    /\ cmd = "external update"
    /\ argv.opts = {"<name>", "--description"}
    /\ Len(remoteCalls) = 1
    /\ remoteCalls[1].req.new_name = None
    /\ remoteCalls[1].req.new_description = "some text"
    /\ failure = NoFailure
    /\ exit_status = 0

\* C7 as stated: no failure leaves a command callback; a callback that
\* failed (in restoring the session, in the remote call, in reading the
\* result or in the output) ends with one message on the error stream and a
\* non-zero status, and one that did not ends with status 0.
C7_AllFailuresCaught ==
    /\ ~escaped
    /\ Done =>
         /\ failure \notin {NoFailure, "ValidationError", "Abort"}
               => (Len(err) = 1 /\ exit_status # 0)
         /\ failure = NoFailure => (exit_status = 0 /\ err = <<>>)

\* C7 amended: a failure that derives from Exception never leaves a command
\* callback: it ends the invocation with one message on the error stream and
\* a non-zero status; a callback that did not fail ends with status 0 and an
\* empty error stream.  Only KeyboardInterrupt and SystemExit leave the
\* callback, which then writes no message of its own: click reports the first
\* as 'Aborted!' with a non-zero status; the second ends the process with the
\* status it carries, which can be 0, and writes on the error stream only
\* what it carries, and then the status is non-zero.
C7_FailuresCaught ==
    /\ escaped =>
         /\ Done
         /\ failure \in {"KeyboardInterrupt", "SystemExit"}
         /\ failure = "KeyboardInterrupt"
               => (err = <<"Aborted!">> /\ exit_status # 0)
         /\ failure = "SystemExit"
               => /\ exit_status \in 0..(ExitStatusModulus - 1)
                  /\ \/ err = <<>>
                     \/ /\ Len(err) = 1
                        /\ err[1] \in SystemExitMessages
                        /\ exit_status # 0
    /\ Done =>
         /\ failure \in {"AuthFailure", "NoVdcSelected", "RemoteRejected",
                         "ResultError", "OutputError"}
               => (~escaped /\ err = <<failure>> /\ exit_status # 0)
         /\ failure = NoFailure => (~escaped /\ exit_status = 0 /\ err = <<>>)

C7_Witness ==
    /\ Done
    /\ cmd = "external create"
    /\ failure = "OutputError"
    /\ Len(out) = 1
    /\ Len(err) = 1
    /\ ~escaped
    /\ exit_status # 0

\* C8: an invocation issues at most one remote operation, the SDK method of
\* its command: nothing is retried after a rejection and no task is polled.
C8_OneRemoteCall ==
    /\ Len(remoteCalls) <= 1
    /\ Len(responses) = Len(remoteCalls)
    /\ \A i \in 1..Len(remoteCalls) : remoteCalls[i].op = SdkOp(cmd)

C8_Witness ==
    /\ Done
    /\ cmd = "external update"
    /\ Len(remoteCalls) = 1
    /\ responses[1].raised
    /\ failure = "RemoteRejected"

\* C9: a list command whose remote enumeration returns prints one {name}
\* record per reported network, in the reported order; an empty enumeration
\* prints the empty list and is a success.
C9_ListInOrder ==
    (Done /\ cmd \in ListCommands /\ responses # <<>>
        /\ ~responses[1].raised /\ ~SinkFailed)
        => /\ failure = NoFailure
           /\ exit_status = 0
           /\ Len(out) = 1
           /\ Len(out[1].list) = Len(responses[1].nets)
           /\ \A i \in 1..Len(responses[1].nets) :
                out[1].list[i] = [name |-> responses[1].nets[i].name]

C9_Witness ==
    /\ Done
    /\ cmd = "direct list"
    /\ Len(responses) = 1
    /\ Len(responses[1].nets) = 2
    /\ responses[1].nets[1].name = "netB"
    /\ responses[1].nets[2].name = "netA"
    /\ out = <<[list |-> <<[name |-> "netB"], [name |-> "netA"]>>]>>
    /\ exit_status = 0

\* C10: an external-network command never fails with NoVdcSelected; with an
\* authenticated session, whether or not a vdc is selected, a command line
\* click accepts and no interruption, it reaches its remote call on the
\* platform handle.
C10_ExternalNeedsNoVdc ==
    cmd \in ExternalCommands
        => /\ failure # "NoVdcSelected"
           /\ (Done /\ session.authenticated /\ Accepted /\ ~Interrupted)
                 => /\ Len(remoteCalls) = 1
                    /\ remoteCalls[1].on = Platform

C10_Witness ==
    /\ Done
    /\ cmd = "external delete"
    /\ NoVdc
    /\ session.authenticated
    /\ Len(remoteCalls) = 1
    /\ remoteCalls[1].on = Platform
    /\ failure = NoFailure

====
